---- MODULE Spec2Model ----
(***************************************************************************)
(* The task collection engine of the todo application: the useTasks hook   *)
(* backed by the remote store (src/unnamed/part_004), its identity signal  *)
(* (src/unnamed/part_002) and the todos table (src/unnamed/part_000).      *)
(*                                                                         *)
(* Every asynchronous engine operation is split where the code awaits the  *)
(* store: the call (up to the await, request sent), the store processing   *)
(* the request, and the continuation that runs when the response arrives.  *)
(* The callbacks are closures over the values of the render in which they  *)
(* were created; a call reads `user` and `tasks` as they are at the call.  *)
(*                                                                         *)
(* The view state (filter, sort, search text, selected category and tags)  *)
(* is set by the setters the hook returns; the presented sequence is the    *)
(* memoised filteredAndSortedTasks, a function of collection and view.      *)
(***************************************************************************)
EXTENDS Integers, Sequences, FiniteSets, TLC

VARIABLES user, tasks, store, owner, inflight, toast, returned, view, now,
          utcOffset, form

vars ==
  <<user, tasks, store, owner, inflight, toast, returned, view, now, utcOffset,
    form>>

----------------------------------------------------------------------------
(* Bounds *)

MaxId == 3          \* rows ever inserted when calls are made one after another
MaxRace == 2        \* rows ever inserted when calls overlap
MaxInflight == 2    \* store requests awaited at once when calls overlap
MaxView == 3        \* tasks in a collection whose view is computed
MaxNow == 54        \* the clock stops here (hours)
MaxDone == 5        \* completed tasks in a collection whose suggestions are computed
MaxHigh == 4        \* active high-priority tasks in such a collection
MaxSubmit == 1      \* store requests awaited at once after submits of the form
MaxDay == 2         \* calendar days picked as due dates

----------------------------------------------------------------------------
(* Values *)

NoUser == "none"                 \* user === null
Users == {"u1", "u2"}
Titles == {"a"}                  \* titles given to addTask
undefined == "undefined"         \* a missing string-valued property
null == "null"                   \* a column without a value
UndefinedId == 0                 \* task.id of an element that is not a task
NoTask == -1                     \* nothing was returned by an add in this step
NullTask == 0                    \* addTask returned null
FilterType == {"all", "active", "completed"}
SortType == {"date", "priority", "name", "dueDate"}

\* An optional value: absent (undefined or null), or present.
None == <<>>
Some(x) == <<x>>

\* The task form and the list around it as useState initialises them: the
\* dialog closed, no task being edited, the fields empty; submitted is the
\* data of the last onSubmit call.
InitialForm ==
  [open |-> FALSE, editingTask |-> None, title |-> <<>>, tagInput |-> <<>>,
   tags |-> <<>>, submitted |-> None]

\* The view state of the hook as useState initialises it. Strings that are
\* searched are sequences of characters.
InitialView ==
  [filter |-> "all", sort |-> "date", searchQuery |-> <<>>,
   selectedCategory |-> None, selectedTags |-> <<>>]

\* Partial<Task> values handed to updateTask by the presentation layer.
Patches ==
  { [completed |-> TRUE], [title |-> "b"], [title |-> "a", completed |-> FALSE] }

\* The element `{ ...undefined, order: index }` that reorderTasks builds when
\* splice removed nothing: it has no id, no title and a falsy completed.
Phantom ==
  [id |-> UndefinedId, title |-> undefined, completed |-> FALSE, order |-> 0]

NoRequest ==
  [kind |-> "none", phase |-> "none", uid |-> NoUser, auth |-> NoUser,
   id |-> 0, patch |-> <<>>, title |-> undefined, order |-> 0,
   startIndex |-> 0, endIndex |-> 0, ok |-> FALSE, data |-> <<>>,
   writes |-> <<>>]

----------------------------------------------------------------------------
(* Helpers over sequences *)

TaskIds(ts) == {ts[i].id : i \in DOMAIN ts}

\* s without its i-th element
Remove(s, i) == SubSeq(s, 1, i - 1) \o SubSeq(s, i + 1, Len(s))

\* The start index of Array.prototype.splice, clamped as the language does.
SpliceStart(len, start) ==
  IF start < 0
    THEN (IF len + start < 0 THEN 0 ELSE len + start)
    ELSE (IF start > len THEN len ELSE start)

\* result.splice(start, 1): the removed elements (at most one) ...
SpliceRemoved(s, start) ==
  LET a == SpliceStart(Len(s), start)
  IN IF a < Len(s) THEN <<s[a + 1]>> ELSE <<>>

\* ... and the array left behind.
SpliceRest(s, start) ==
  LET a == SpliceStart(Len(s), start)
  IN IF a < Len(s)
       THEN SubSeq(s, 1, a) \o SubSeq(s, a + 2, Len(s))
       ELSE s

\* result.splice(start, 0, item)
SpliceInsert(s, start, item) ==
  LET b == SpliceStart(Len(s), start)
  IN SubSeq(s, 1, b) \o <<item>> \o SubSeq(s, b + 1, Len(s))

----------------------------------------------------------------------------
(* The todos table and the mapping between rows and tasks *)

\* created_at DEFAULT now(): rows are created in the order of their ids, so
\* the id of a row stands for its created_at as well.
created_at(id) == id

\* The mapping `(todo) => ({ id: todo.id, ..., order: todo.order || 0 })`;
\* the column is never null here, so `|| 0` maps 0 to 0 and keeps the rest.
\* A due date is an instant in hours (UTC); the due_date column holds a day
\* number, or None for null. `toISOString().split('T')[0]` is the UTC day
\* of the instant, and `new Date('YYYY-MM-DD')` is the midnight (UTC) that
\* begins the day.
toDateOnly(t) == t \div 24
fromDateOnly(day) == 24 * day

\* Rows that carry the due_date column are mapped with
\* `dueDate: todo.due_date ? new Date(todo.due_date) : undefined`.
MapTodo(id, row) ==
  IF "due_date" \in DOMAIN row
    THEN [id |-> id, title |-> row.title, completed |-> row.completed,
          dueDate |-> IF row.due_date = None THEN None
                      ELSE Some(fromDateOnly(row.due_date[1])),
          order |-> row.order]
    ELSE [id |-> id, title |-> row.title, completed |-> row.completed,
          order |-> row.order]

RECURSIVE NewestFirst(_, _)
\* .order('created_at', { ascending: false }) over the rows with ids in S
NewestFirst(S, rows) ==
  IF S = {} THEN <<>>
  ELSE LET m == CHOOSE i \in S : \A j \in S : created_at(j) <= created_at(i)
       IN <<MapTodo(m, rows[m])>> \o NewestFirst(S \ {m}, rows)

\* select('*').eq('user_id', uid), seen through the SELECT policy
\* auth.uid() = user_id, newest first, already mapped to tasks.
SelectTodos(rows, uid, auth) ==
  NewestFirst({i \in DOMAIN rows : rows[i].user_id = uid /\ rows[i].user_id = auth}, rows)

\* The rows an update or delete with the given predicates reaches: .eq('id', id),
\* .eq('user_id', uid) when the request carries it (uid # NoUser), and the
\* policy auth.uid() = user_id.
Reached(rows, id, uid, auth) ==
  {i \in DOMAIN rows : /\ i = id
                       /\ (uid # NoUser => rows[i].user_id = uid)
                       /\ rows[i].user_id = auth}

\* dbUpdates: of the keys the function lists (no id, no createdAt among
\* them), those whose value in updates is not undefined are written.
\* `updates.description || null`: the empty text is written as null.
\* A due date (None for undefined) is written to the column due_date as
\* `updates.dueDate.toISOString().split('T')[0]`.
DbUpdates(patch) ==
  LET written == {f \in DOMAIN patch \cap
                         {"title", "description", "completed", "dueDate", "order"} :
                    /\ ~(f \in {"title", "description"} /\ patch[f] = undefined)
                    /\ ~(f = "dueDate" /\ patch[f] = None)}
  IN [c \in {IF f = "dueDate" THEN "due_date" ELSE f : f \in written} |->
        IF c = "due_date" THEN Some(toDateOnly(patch.dueDate[1]))
        ELSE IF c = "description" /\ patch[c] = "" THEN null
        ELSE patch[c]]

\* `{ ...task, ...updates }`
Merge(task, patch) ==
  [f \in DOMAIN task |-> IF f \in DOMAIN patch THEN patch[f] ELSE task[f]]

UpdateRows(rows, S, db) ==
  [i \in DOMAIN rows |-> IF i \in S THEN Merge(rows[i], db) ELSE rows[i]]

DeleteRows(rows, S) == [i \in DOMAIN rows \ S |-> rows[i]]

InsertRow(rows, id, row) == [i \in DOMAIN rows \cup {id} |-> IF i = id THEN row ELSE rows[i]]

----------------------------------------------------------------------------
(* View computation: the presented sequence *)

\* A status filter whose 'active' keeps every task.
StatusKeepLoose(f, t) ==
  CASE f = "completed" -> t.completed
    [] OTHER -> TRUE

StatusKeep(f, t) ==
  CASE f = "active" -> ~t.completed
    [] f = "completed" -> t.completed
    [] OTHER -> TRUE

RECURSIVE InsertByDate(_, _)
\* One step of the stable sort by `b.createdAt - a.createdAt` (newest first).
InsertByDate(t, s) ==
  IF s = <<>> THEN <<t>>
  ELSE IF created_at(Head(s).id) < created_at(t.id)
         THEN <<t>> \o s
         ELSE <<Head(s)>> \o InsertByDate(t, Tail(s))

RECURSIVE SortByDate(_)
SortByDate(s) ==
  IF s = <<>> THEN <<>>
  ELSE LET n == Len(s) IN InsertByDate(s[n], SortByDate(SubSeq(s, 1, n - 1)))

\* filteredAndSortedTasks with no category, tag or search restriction and
\* the initial sort key 'date'.
filteredAndSortedTasks(ts, f) ==
  SortByDate(SelectSeq(ts, LAMBDA t : StatusKeep(f, t)))

----------------------------------------------------------------------------
(* View computation over tasks with all the fields the view reads *)

\* A task as the view reads it. Strings that are searched or compared are
\* sequences of characters; optional fields are None or Some(value); dates
\* are day numbers.
BaseTask ==
  [id |-> 0, title |-> <<"a">>, description |-> None, completed |-> FALSE,
   createdAt |-> 1, dueDate |-> None, priority |-> "medium", tags |-> <<>>,
   categoryId |-> None, order |-> 0]

\* String.prototype.toLowerCase over the characters used here.
LowerChar(c) ==
  CASE c = "A" -> "a"
    [] c = "B" -> "b"
    [] OTHER -> c

toLowerCase(str) == [i \in DOMAIN str |-> LowerChar(str[i])]

\* String.prototype.includes: query occurs in str as a substring.
includes(str, query) ==
  \E i \in 0..(Len(str) - Len(query)) : SubSeq(str, i + 1, i + Len(query)) = query

RECURSIVE trimStart(_)
trimStart(str) ==
  IF str # <<>> /\ Head(str) = " " THEN trimStart(Tail(str)) ELSE str

RECURSIVE trimEnd(_)
trimEnd(str) ==
  IF str # <<>> /\ str[Len(str)] = " "
    THEN trimEnd(SubSeq(str, 1, Len(str) - 1)) ELSE str

\* String.prototype.trim
trim(str) == trimEnd(trimStart(str))

\* `if (selectedCategory) result.filter(task => task.categoryId === selectedCategory)`
CategoryKeep(v, t) ==
  v.selectedCategory = None \/ t.categoryId = v.selectedCategory

\* `if (selectedTags.length > 0) ... selectedTags.some(tag => task.tags.includes(tag))`
TagsKeep(v, t) ==
  \/ Len(v.selectedTags) = 0
  \/ \E i \in DOMAIN v.selectedTags : \E j \in DOMAIN t.tags :
        t.tags[j] = v.selectedTags[i]

\* `if (searchQuery.trim())`: the query is the lower-cased search text, not
\* trimmed, looked for in title, description and each tag, lower-cased.
SearchKeep(v, t) ==
  \/ trim(v.searchQuery) = <<>>
  \/ LET query == toLowerCase(v.searchQuery)
     IN \/ includes(toLowerCase(t.title), query)
        \/ /\ t.description # None
           /\ includes(toLowerCase(t.description[1]), query)
        \/ \E j \in DOMAIN t.tags : includes(toLowerCase(t.tags[j]), query)

\* The collation keys of a character: letters compare by letter first and
\* only then by case, lower case first; the space comes before the letters.
Primary(c) ==
  CASE c = " " -> 0
    [] c \in {"a", "A"} -> 1
    [] OTHER -> 2

Tertiary(c) == IF c \in {"A", "B"} THEN 1 ELSE 0

RECURSIVE LexCompare(_, _)
\* The sign of the lexicographic comparison of two sequences of numbers.
LexCompare(x, y) ==
  IF x = <<>> /\ y = <<>> THEN 0
  ELSE IF x = <<>> THEN -1
  ELSE IF y = <<>> THEN 1
  ELSE IF Head(x) < Head(y) THEN -1
  ELSE IF Head(x) > Head(y) THEN 1
  ELSE LexCompare(Tail(x), Tail(y))

\* String.prototype.localeCompare
localeCompare(a, b) ==
  LET p == LexCompare([i \in DOMAIN a |-> Primary(a[i])],
                      [i \in DOMAIN b |-> Primary(b[i])])
  IN IF p # 0 THEN p
     ELSE LexCompare([i \in DOMAIN a |-> Tertiary(a[i])],
                     [i \in DOMAIN b |-> Tertiary(b[i])])

\* `const priorityOrder = { high: 0, medium: 1, low: 2 }`
priorityOrder(p) ==
  CASE p = "high" -> 0
    [] p = "medium" -> 1
    [] OTHER -> 2

\* A comparator that puts the tasks without a due date first.
CompareNoneFirst(sort, a, b) ==
  CASE sort = "date" -> b.createdAt - a.createdAt
    [] sort = "dueDate" ->
         IF a.dueDate = None /\ b.dueDate = None THEN 0
         ELSE IF a.dueDate = None THEN -1
         ELSE IF b.dueDate = None THEN 1
         ELSE a.dueDate[1] - b.dueDate[1]
    [] sort = "priority" -> priorityOrder(a.priority) - priorityOrder(b.priority)
    [] sort = "name" -> localeCompare(a.title, b.title)
    [] OTHER -> 0

\* The comparator handed to result.sort for the sort key.
Compare(sort, a, b) ==
  CASE sort = "date" -> b.createdAt - a.createdAt
    [] sort = "dueDate" ->
         IF a.dueDate = None /\ b.dueDate = None THEN 0
         ELSE IF a.dueDate = None THEN 1
         ELSE IF b.dueDate = None THEN -1
         ELSE a.dueDate[1] - b.dueDate[1]
    [] sort = "priority" -> priorityOrder(a.priority) - priorityOrder(b.priority)
    [] sort = "name" -> localeCompare(a.title, b.title)
    [] OTHER -> 0

RECURSIVE InsertSortedFront(_, _, _)
\* An insertion that puts t before the elements that compare equal to it.
InsertSortedFront(sort, t, s) ==
  IF s = <<>> THEN <<t>>
  ELSE IF Compare(sort, Head(s), t) >= 0
         THEN <<t>> \o s
         ELSE <<Head(s)>> \o InsertSortedFront(sort, t, Tail(s))

RECURSIVE InsertSorted(_, _, _)
\* t put into the sorted s behind every element that does not compare
\* greater than it.
InsertSorted(sort, t, s) ==
  IF s = <<>> THEN <<t>>
  ELSE IF Compare(sort, Head(s), t) > 0
         THEN <<t>> \o s
         ELSE <<Head(s)>> \o InsertSorted(sort, t, Tail(s))

RECURSIVE Sorted(_, _)
\* Array.prototype.sort with the comparator: a stable sort.
Sorted(sort, s) ==
  IF s = <<>> THEN <<>>
  ELSE LET n == Len(s)
       IN InsertSorted(sort, s[n], Sorted(sort, SubSeq(s, 1, n - 1)))

\* The filters of filteredAndSortedTasks, in the order of the code.
Filtered(ts, v) ==
  SelectSeq(ts, LAMBDA t : /\ StatusKeep(v.filter, t)
                           /\ CategoryKeep(v, t)
                           /\ TagsKeep(v, t)
                           /\ SearchKeep(v, t))

\* filteredAndSortedTasks for the view state v: what the hook hands to the
\* presentation layer as `tasks`.
PresentedTasks(ts, v) == Sorted(v.sort, Filtered(ts, v))

----------------------------------------------------------------------------
(* Statistics and suggestions *)

\* Timestamps are hours since the midnight (UTC) that began some Sunday;
\* utcOffset is local time minus UTC in hours. date-fns works on local
\* calendar days, and its weeks begin on Sunday.
LocalDay(t) == (t + utcOffset) \div 24

LocalWeek(t) == LocalDay(t) \div 7

\* isPast(date): date < Date.now()
isPast(t) == t < now

isSameDay(a, b) == LocalDay(a) = LocalDay(b)

isToday(t) == isSameDay(t, now)

isThisWeek(t) == LocalWeek(t) = LocalWeek(now)

\* Statistics whose overdue count leaves out the isSameDay test.
statsNoSameDay ==
  LET completed == SelectSeq(tasks, LAMBDA t : t.completed)
      active == SelectSeq(tasks, LAMBDA t : ~t.completed)
      overdue == SelectSeq(active, LAMBDA t : t.dueDate # None /\ isPast(t.dueDate[1]))
  IN [total |-> Len(tasks), completed |-> Len(completed), active |-> Len(active),
      overdue |-> Len(overdue),
      completedToday |-> Len(SelectSeq(completed, LAMBDA t : isToday(t.createdAt))),
      completedThisWeek |-> Len(SelectSeq(completed, LAMBDA t : isThisWeek(t.createdAt)))]

\* The stats memo, computed for the collection at the time `now`.
stats ==
  LET completed == SelectSeq(tasks, LAMBDA t : t.completed)
      active == SelectSeq(tasks, LAMBDA t : ~t.completed)
      overdue == SelectSeq(active, LAMBDA t : /\ t.dueDate # None
                                             /\ isPast(t.dueDate[1])
                                             /\ ~isSameDay(t.dueDate[1], now))
  IN [total |-> Len(tasks), completed |-> Len(completed), active |-> Len(active),
      overdue |-> Len(overdue),
      completedToday |-> Len(SelectSeq(completed, LAMBDA t : isToday(t.createdAt))),
      completedThisWeek |-> Len(SelectSeq(completed, LAMBDA t : isThisWeek(t.createdAt)))]

\* Suggestions whose prioritization warning comes with three tasks already.
smartSuggestionsAtThree ==
  LET highPriorityActive ==
        SelectSeq(tasks, LAMBDA t : ~t.completed /\ t.priority = "high")
  IN (IF stats.overdue > 0 THEN <<"overdue">> ELSE <<>>)
     \o (IF stats.completedToday >= 5 THEN <<"congratulation">> ELSE <<>>)
     \o (IF Len(highPriorityActive) >= 3 THEN <<"prioritization">> ELSE <<>>)

\* The smartSuggestions memo: the messages pushed, named by their kind.
smartSuggestions ==
  LET highPriorityActive ==
        SelectSeq(tasks, LAMBDA t : ~t.completed /\ t.priority = "high")
  IN (IF stats.overdue > 0 THEN <<"overdue">> ELSE <<>>)
     \o (IF stats.completedToday >= 5 THEN <<"congratulation">> ELSE <<>>)
     \o (IF Len(highPriorityActive) > 3 THEN <<"prioritization">> ELSE <<>>)

----------------------------------------------------------------------------
(* reorderTasks, the pure part *)

\* A reorder that exchanges the two positions instead of moving one element.
ReorderResultSwap(ts, startIndex, endIndex) ==
  [i \in DOMAIN ts |->
     [(IF i = startIndex + 1 THEN ts[endIndex + 1]
       ELSE IF i = endIndex + 1 THEN ts[startIndex + 1] ELSE ts[i])
      EXCEPT !.order = i - 1]]

\* `const [removed] = result.splice(startIndex, 1)` yields undefined when
\* nothing was removed; spreading undefined gives an object with order only.
ReorderResult(ts, startIndex, endIndex) ==
  LET rem == SpliceRemoved(ts, startIndex)
      removed == IF Len(rem) = 0 THEN Phantom ELSE rem[1]
      result == SpliceInsert(SpliceRest(ts, startIndex), endIndex, removed)
  IN [i \in DOMAIN result |-> [result[i] EXCEPT !.order = i - 1]]

----------------------------------------------------------------------------
(* State *)

\* Inserts requested and not yet processed by the store.
PendingInserts == {s \in DOMAIN inflight : inflight[s].kind = "add" /\ inflight[s].phase = "sent"}

Init ==
  /\ user = NoUser
  /\ tasks = <<>>
  /\ store = <<>>
  /\ owner = <<>>
  /\ inflight = <<>>
  /\ toast = "none"
  /\ returned = NoTask
  /\ view = InitialView
  /\ now = 0
  /\ utcOffset = 0
  /\ form = InitialForm

----------------------------------------------------------------------------
(* Identity provider and initial load *)

\* setUser(session?.user ?? null) re-creates fetchTasks, and the effect runs
\* it: without a user the collection is cleared at once, with a user the
\* select is sent and awaited.
AuthStateChange(u) ==
  /\ u # NoUser \/ user # NoUser
  /\ user' = u
  /\ toast' = "none"
  /\ returned' = NoTask
  /\ UNCHANGED <<store, owner>>
  /\ IF u = NoUser
       THEN /\ tasks' = <<>>
            /\ UNCHANGED inflight
       ELSE inflight' = Append(inflight,
                 [NoRequest EXCEPT !.kind = "load", !.phase = "sent", !.uid = u, !.auth = u])
            /\ UNCHANGED tasks

\* The store answers the select, or fails.
StoreLoad(s, ok) ==
  /\ inflight[s].kind = "load" /\ inflight[s].phase = "sent"
  /\ inflight' = [inflight EXCEPT ![s] =
       [@ EXCEPT !.phase = "resp", !.ok = ok,
                 !.data = IF ok THEN SelectTodos(store, inflight[s].uid, inflight[s].auth) ELSE <<>>]]
  /\ UNCHANGED <<user, tasks, store, owner, toast, returned>>

\* fetchTasks after the await: setTasks(mappedTasks), or the toast of the
\* catch block.
FetchTasksDone(s) ==
  /\ inflight[s].kind = "load" /\ inflight[s].phase = "resp"
  /\ inflight' = Remove(inflight, s)
  /\ tasks' = IF inflight[s].ok THEN inflight[s].data ELSE tasks
  /\ toast' = IF inflight[s].ok THEN "none" ELSE "load"
  /\ returned' = NoTask
  /\ UNCHANGED <<user, store, owner>>

----------------------------------------------------------------------------
(* addTask *)

\* Up to the await: `if (!user) return null`, else the insert is sent with
\* user_id: user.id and order: tasks.length of the current render.
AddTask(title) ==
  /\ toast' = "none"
  /\ UNCHANGED <<user, tasks, store, owner>>
  /\ IF user = NoUser
       THEN /\ returned' = NullTask
            /\ UNCHANGED inflight
       ELSE /\ returned' = NoTask
            /\ inflight' = Append(inflight,
                 [NoRequest EXCEPT !.kind = "add", !.phase = "sent", !.uid = user,
                              !.auth = user, !.title = title, !.order = Len(tasks)])

\* The store inserts the row (INSERT policy: auth.uid() = user_id) and returns
\* it, or fails and inserts nothing.
StoreInsert(s, ok) ==
  /\ inflight[s].kind = "add" /\ inflight[s].phase = "sent"
  /\ LET op == inflight[s]
         accepted == ok /\ op.uid = op.auth
         id == Len(owner) + 1
         row == [user_id |-> op.uid, title |-> op.title, completed |-> FALSE,
                 order |-> op.order]
     IN /\ store' = IF accepted THEN InsertRow(store, id, row) ELSE store
        /\ owner' = IF accepted THEN Append(owner, op.uid) ELSE owner
        /\ inflight' = [inflight EXCEPT ![s] =
             [@ EXCEPT !.phase = "resp", !.ok = accepted,
                       !.data = IF accepted THEN <<MapTodo(id, row)>> ELSE <<>>]]
  /\ UNCHANGED <<user, tasks, toast, returned>>

\* An addTask that prepends the task it asked for before looking at the error.
AddTaskDoneUnchecked(s) ==
  /\ inflight[s].kind = "add" /\ inflight[s].phase = "resp"
  /\ inflight' = Remove(inflight, s)
  /\ tasks' = (IF inflight[s].ok THEN inflight[s].data
               ELSE <<[id |-> UndefinedId, title |-> inflight[s].title,
                       completed |-> FALSE, order |-> inflight[s].order]>>) \o tasks
  /\ returned' = IF inflight[s].ok THEN inflight[s].data[1].id ELSE NullTask
  /\ toast' = IF inflight[s].ok THEN "none" ELSE "add"
  /\ UNCHANGED <<user, store, owner>>

\* addTask after the await: the new task is prepended and returned, or the
\* catch block toasts and returns null.
AddTaskDone(s) ==
  /\ inflight[s].kind = "add" /\ inflight[s].phase = "resp"
  /\ inflight' = Remove(inflight, s)
  /\ IF inflight[s].ok
       THEN /\ tasks' = inflight[s].data \o tasks
            /\ returned' = inflight[s].data[1].id
            /\ toast' = "none"
       ELSE /\ tasks' = tasks
            /\ returned' = NullTask
            /\ toast' = "add"
  /\ UNCHANGED <<user, store, owner>>

----------------------------------------------------------------------------
(* updateTask, toggleComplete, deleteTask *)

\* The update request of updateTask: .update(dbUpdates).eq('id', id)
\* .eq('user_id', user.id).
UpdateRequest(id, patch) ==
  [NoRequest EXCEPT !.kind = "update", !.phase = "sent", !.uid = user, !.auth = user,
               !.id = id, !.patch = patch]

\* Up to the await: `if (!user) return`, else the update is sent.
UpdateTask(id, patch) ==
  /\ toast' = "none"
  /\ returned' = NoTask
  /\ UNCHANGED <<user, tasks, store, owner>>
  /\ IF user = NoUser
       THEN UNCHANGED inflight
       ELSE inflight' = Append(inflight, UpdateRequest(id, patch))

\* A toggleComplete that always asks for completed: true.
ToggleCompleteSet(id) ==
  /\ toast' = "none"
  /\ returned' = NoTask
  /\ UNCHANGED <<user, tasks, store, owner>>
  /\ IF id \in TaskIds(tasks) /\ user # NoUser
       THEN inflight' = Append(inflight, UpdateRequest(id, [completed |-> TRUE]))
       ELSE UNCHANGED inflight

\* tasks.find(t => t.id === id), then updateTask with the complement of the
\* value found in the current render.
ToggleComplete(id) ==
  /\ toast' = "none"
  /\ returned' = NoTask
  /\ UNCHANGED <<user, tasks, store, owner>>
  /\ IF id \in TaskIds(tasks) /\ user # NoUser
       THEN LET task == tasks[CHOOSE i \in DOMAIN tasks :
                                   /\ tasks[i].id = id
                                   /\ \A j \in 1..(i - 1) : tasks[j].id # id]
               IN inflight' = Append(inflight,
                                 UpdateRequest(id, [completed |-> ~task.completed]))
       ELSE UNCHANGED inflight

\* The store updates the rows the request reaches (none is not an error), or
\* fails and changes nothing.
StoreUpdate(s, ok) ==
  /\ inflight[s].kind = "update" /\ inflight[s].phase = "sent"
  /\ LET op == inflight[s]
     IN store' = IF ok
                   THEN UpdateRows(store, Reached(store, op.id, op.uid, op.auth),
                                   DbUpdates(op.patch))
                   ELSE store
  /\ inflight' = [inflight EXCEPT ![s] = [@ EXCEPT !.phase = "resp", !.ok = ok]]
  /\ UNCHANGED <<user, tasks, owner, toast, returned>>

\* An updateTask that merges the updates before looking at the error.
UpdateTaskDoneUnchecked(s) ==
  /\ inflight[s].kind = "update" /\ inflight[s].phase = "resp"
  /\ inflight' = Remove(inflight, s)
  /\ tasks' = [i \in DOMAIN tasks |->
                 IF tasks[i].id = inflight[s].id
                   THEN Merge(tasks[i], inflight[s].patch) ELSE tasks[i]]
  /\ toast' = IF inflight[s].ok THEN "none" ELSE "update"
  /\ returned' = NoTask
  /\ UNCHANGED <<user, store, owner>>

\* updateTask after the await: the updates are merged into the task with the
\* id, or the catch block toasts.
UpdateTaskDone(s) ==
  /\ inflight[s].kind = "update" /\ inflight[s].phase = "resp"
  /\ inflight' = Remove(inflight, s)
  /\ tasks' = IF inflight[s].ok
                THEN [i \in DOMAIN tasks |->
                       IF tasks[i].id = inflight[s].id
                         THEN Merge(tasks[i], inflight[s].patch)
                         ELSE tasks[i]]
                ELSE tasks
  /\ toast' = IF inflight[s].ok THEN "none" ELSE "update"
  /\ returned' = NoTask
  /\ UNCHANGED <<user, store, owner>>

\* Up to the await: `if (!user) return`, else the delete is sent with
\* .eq('id', id).eq('user_id', user.id).
DeleteTask(id) ==
  /\ toast' = "none"
  /\ returned' = NoTask
  /\ UNCHANGED <<user, tasks, store, owner>>
  /\ IF user = NoUser
       THEN UNCHANGED inflight
       ELSE inflight' = Append(inflight,
                 [NoRequest EXCEPT !.kind = "delete", !.phase = "sent", !.uid = user,
                              !.auth = user, !.id = id])

StoreDelete(s, ok) ==
  /\ inflight[s].kind = "delete" /\ inflight[s].phase = "sent"
  /\ LET op == inflight[s]
     IN store' = IF ok
                   THEN DeleteRows(store, Reached(store, op.id, op.uid, op.auth))
                   ELSE store
  /\ inflight' = [inflight EXCEPT ![s] = [@ EXCEPT !.phase = "resp", !.ok = ok]]
  /\ UNCHANGED <<user, tasks, owner, toast, returned>>

\* A deleteTask that filters the task out before looking at the error.
DeleteTaskDoneUnchecked(s) ==
  /\ inflight[s].kind = "delete" /\ inflight[s].phase = "resp"
  /\ inflight' = Remove(inflight, s)
  /\ tasks' = SelectSeq(tasks, LAMBDA task : task.id # inflight[s].id)
  /\ toast' = IF inflight[s].ok THEN "none" ELSE "delete"
  /\ returned' = NoTask
  /\ UNCHANGED <<user, store, owner>>

\* A deleteTask that closes the gap in the order values after filtering.
DeleteTaskDoneRenumber(s) ==
  /\ inflight[s].kind = "delete" /\ inflight[s].phase = "resp"
  /\ inflight' = Remove(inflight, s)
  /\ tasks' = IF inflight[s].ok
                THEN LET rest == SelectSeq(tasks, LAMBDA task : task.id # inflight[s].id)
                     IN [i \in DOMAIN rest |-> [rest[i] EXCEPT !.order = Len(rest) - i]]
                ELSE tasks
  /\ toast' = IF inflight[s].ok THEN "none" ELSE "delete"
  /\ returned' = NoTask
  /\ UNCHANGED <<user, store, owner>>

\* deleteTask after the await: the task is filtered out, or the catch block
\* toasts.
DeleteTaskDone(s) ==
  /\ inflight[s].kind = "delete" /\ inflight[s].phase = "resp"
  /\ inflight' = Remove(inflight, s)
  /\ tasks' = IF inflight[s].ok
                THEN SelectSeq(tasks, LAMBDA task : task.id # inflight[s].id)
                ELSE tasks
  /\ toast' = IF inflight[s].ok THEN "none" ELSE "delete"
  /\ returned' = NoTask
  /\ UNCHANGED <<user, store, owner>>

----------------------------------------------------------------------------
(* reorderTasks *)

\* The writes of the loop `for (const task of reorderedTasks)`:
\* .update({ order: task.order }).eq('id', task.id), one per element.
OrderWrites(ts) == [i \in DOMAIN ts |-> [id |-> ts[i].id, order |-> ts[i].order]]

\* A reorderTasks that sends its writes and leaves the collection as it is.
ReorderTasksLate(startIndex, endIndex) ==
  /\ LET reorderedTasks == ReorderResult(tasks, startIndex, endIndex)
     IN /\ tasks' = tasks
        /\ inflight' = Append(inflight,
             [NoRequest EXCEPT !.kind = "reorder", !.phase = "sent", !.auth = user,
                          !.startIndex = startIndex, !.endIndex = endIndex,
                          !.writes = OrderWrites(reorderedTasks)])
  /\ toast' = "none"
  /\ returned' = NoTask
  /\ UNCHANGED <<user, store, owner>>

\* Up to the first await: the collection is replaced by the renumbered one
\* and the first write is sent. There is no check of `user`, and the writes
\* carry no user_id predicate.
ReorderTasks(startIndex, endIndex) ==
  /\ LET reorderedTasks == ReorderResult(tasks, startIndex, endIndex)
     IN /\ tasks' = reorderedTasks
        /\ inflight' = Append(inflight,
             [NoRequest EXCEPT !.kind = "reorder", !.phase = "sent", !.auth = user,
                          !.startIndex = startIndex, !.endIndex = endIndex,
                          !.writes = OrderWrites(reorderedTasks)])
  /\ toast' = "none"
  /\ returned' = NoTask
  /\ UNCHANGED <<user, store, owner>>

\* The store processes the write that is awaited; whatever it answers, the
\* loop goes on and sends the next write under the session of that moment.
ReorderWrite(s, ok) ==
  /\ inflight[s].kind = "reorder" /\ inflight[s].phase = "sent"
  /\ LET op == inflight[s]
         w == Head(op.writes)
     IN /\ store' = IF ok
                      THEN UpdateRows(store, Reached(store, w.id, op.uid, op.auth),
                                      [order |-> w.order])
                      ELSE store
        /\ inflight' = IF Len(op.writes) = 1
                          THEN Remove(inflight, s)
                          ELSE [inflight EXCEPT ![s] =
                                 [op EXCEPT !.writes = Tail(op.writes), !.auth = user]]
  /\ UNCHANGED <<user, tasks, owner, toast, returned>>

----------------------------------------------------------------------------
(* Specification *)

\* The indices handleDragEnd passes to reorderTasks are positions of the list
\* it is given, which is never longer than the collection.
Indices == 0..(Len(tasks) - 1)

\* The identity provider signs users of U in and out and refreshes their
\* sessions; a load is sent while fewer than cap requests are awaited.
Auth(U, cap) ==
  /\ UNCHANGED <<view, now, utcOffset, form>>
  /\ \/ \E u \in U \cup {NoUser} :
           /\ u = NoUser \/ Len(inflight) < cap
           /\ AuthStateChange(u)
     \/ \E s \in DOMAIN inflight, ok \in BOOLEAN : StoreLoad(s, ok)
     \/ \E s \in DOMAIN inflight : FetchTasksDone(s)

\* At most n rows are ever inserted.
Adds(cap, n) ==
  /\ UNCHANGED <<view, now, utcOffset, form>>
  /\ \/ /\ Len(inflight) < cap
        /\ Len(owner) + Cardinality(PendingInserts) < n
        /\ \E title \in Titles : AddTask(title)
     \/ \E s \in DOMAIN inflight, ok \in BOOLEAN : StoreInsert(s, ok)
     \/ \E s \in DOMAIN inflight : AddTaskDone(s)

Updates(cap, n, P) ==
  /\ UNCHANGED <<view, now, utcOffset, form>>
  /\ \/ /\ Len(inflight) < cap
        /\ \/ \E id \in 1..n, patch \in P : UpdateTask(id, patch)
           \/ \E id \in 1..n : ToggleComplete(id)
     \/ \E s \in DOMAIN inflight, ok \in BOOLEAN : StoreUpdate(s, ok)
     \/ \E s \in DOMAIN inflight : UpdateTaskDone(s)

Deletes(cap, n) ==
  /\ UNCHANGED <<view, now, utcOffset, form>>
  /\ \/ /\ Len(inflight) < cap
        /\ \E id \in 1..n : DeleteTask(id)
     \/ \E s \in DOMAIN inflight, ok \in BOOLEAN : StoreDelete(s, ok)
     \/ \E s \in DOMAIN inflight : DeleteTaskDone(s)

Reorders(cap) ==
  /\ UNCHANGED <<view, now, utcOffset, form>>
  /\ \/ /\ Len(inflight) < cap
        /\ \E startIndex \in Indices, endIndex \in Indices :
              ReorderTasks(startIndex, endIndex)
     \/ \E s \in DOMAIN inflight, ok \in BOOLEAN : ReorderWrite(s, ok)

\* The whole engine.
Engine(U, cap, n, P) ==
  \/ Auth(U, cap)
  \/ Adds(cap, n)
  \/ Updates(cap, n, P)
  \/ Deletes(cap, n)
  \/ Reorders(cap)

\* A signed-in user whose initial load found no rows.
InitReady ==
  /\ user = "u1"
  /\ tasks = <<>>
  /\ store = <<>>
  /\ owner = <<>>
  /\ inflight = <<>>
  /\ toast = "none"
  /\ returned = NoTask
  /\ view = InitialView
  /\ now = 0
  /\ utcOffset = 0
  /\ form = InitialForm

\* The whole engine, each call made when no request is awaited (the sign-out
\* of the identity provider comes at any time).
Next == Engine(Users, 1, MaxRace, Patches)

Spec == Init /\ [][Next]_vars

\* One session, the mutations called one after another.
NextSeq ==
  \/ Adds(1, MaxId)
  \/ Updates(1, MaxId, Patches)
  \/ Deletes(1, MaxId)
  \/ Reorders(1)

SpecSeq == InitReady /\ [][NextSeq]_vars

\* One session, overlapping adds.
NextAdd == Adds(MaxInflight, MaxId)

SpecAdd == InitReady /\ [][NextAdd]_vars

\* One session, adds and reorders called one after another.
NextReorder ==
  \/ Adds(1, MaxId)
  \/ Reorders(1)

SpecReorder == InitReady /\ [][NextReorder]_vars

\* One session, adds and updates called one after another.
NextUpdate ==
  \/ Adds(1, MaxId)
  \/ Updates(1, MaxId, Patches)

SpecUpdate == InitReady /\ [][NextUpdate]_vars

\* One session, adds, completions and deletes called one after another.
NextDelete ==
  \/ Adds(1, MaxId)
  \/ Updates(1, MaxId, {[completed |-> TRUE]})
  \/ Deletes(1, MaxId)

SpecDelete == InitReady /\ [][NextDelete]_vars

\* Identity changes, loads and adds, overlapping.
NextIdentity ==
  \/ Auth(Users, MaxInflight)
  \/ Adds(MaxInflight, MaxRace)

SpecIdentity == Init /\ [][NextIdentity]_vars

\* One session, adds one after another and overlapping toggles.
NextToggle ==
  \/ Adds(1, MaxRace)
  \/ /\ UNCHANGED <<view, now, utcOffset, form>>
     /\ \/ /\ Len(inflight) < MaxInflight
           /\ \E id \in 1..MaxRace : ToggleComplete(id)
        \/ \E s \in DOMAIN inflight, ok \in BOOLEAN : StoreUpdate(s, ok)
        \/ \E s \in DOMAIN inflight : UpdateTaskDone(s)

SpecToggle == InitReady /\ [][NextToggle]_vars

\* `description: todo.description || undefined` of the row mapping.
MapDescription(d) == IF d = null \/ d = "" THEN undefined ELSE d

\* What the task form submits for an edited task, of the title and the
\* description: `description: description.trim() || undefined`.
FormPatches ==
  {[title |-> ti, description |-> d] : ti \in {"a", "b"}, d \in {undefined, "d", "e"}}

\* A signed-in user whose load found up to MaxRace rows, with and without a
\* description, and mapped them, newest first.
InitDescribed ==
  /\ user = "u1"
  /\ store \in UNION {[1..n -> {[user_id |-> "u1", title |-> "a", completed |-> FALSE,
                                  order |-> 0, description |-> d] : d \in {null, "d"}}] :
                       n \in 1..MaxRace}
  /\ owner = [i \in DOMAIN store |-> "u1"]
  /\ tasks = [i \in DOMAIN store |->
               LET id == Len(store) + 1 - i
               IN [id |-> id, title |-> store[id].title,
                   description |-> MapDescription(store[id].description),
                   completed |-> store[id].completed, order |-> store[id].order]]
  /\ inflight = <<>>
  /\ toast = "none"
  /\ returned = NoTask
  /\ view = InitialView
  /\ now = 0
  /\ utcOffset = 0
  /\ form = InitialForm

\* One session, updates as the form submits them, one after another.
NextDescribed == Updates(1, MaxRace, FormPatches)

SpecDescribed == InitDescribed /\ [][NextDescribed]_vars

\* One user signs in and has the session refreshed, loads and adds overlap,
\* and the store answers every request with success.
NextLoad ==
  /\ UNCHANGED <<view, now, utcOffset, form>>
  /\ \/ /\ Len(inflight) < MaxInflight
        /\ AuthStateChange("u1")
     \/ \E s \in DOMAIN inflight : StoreLoad(s, TRUE)
     \/ \E s \in DOMAIN inflight : FetchTasksDone(s)
     \/ /\ Len(inflight) < MaxInflight
        /\ Len(owner) + Cardinality(PendingInserts) < MaxId
        /\ \E title \in Titles : AddTask(title)
     \/ \E s \in DOMAIN inflight : StoreInsert(s, TRUE)
     \/ \E s \in DOMAIN inflight : AddTaskDone(s)

SpecLoad == Init /\ [][NextLoad]_vars

\* One user: sign-in, session refreshes with their loads, adds and reorders,
\* one after another.
NextReload ==
  \/ Auth({"u1"}, 1)
  \/ Adds(1, MaxId)
  \/ Reorders(1)

SpecReload == Init /\ [][NextReload]_vars

\* The calendar days picked as due dates, and the instant at which such a
\* day begins in local time.
Days == 1..MaxDay
localMidnight(day) == 24 * day - utcOffset

\* A signed-in user in some time zone whose load found up to MaxRace rows
\* without a due date.
InitDated ==
  /\ user = "u1"
  /\ utcOffset \in {-5, 0, 3}
  /\ store \in {[i \in 1..n |-> [user_id |-> "u1", title |-> "a", completed |-> FALSE,
                                 order |-> 0, due_date |-> None]] : n \in 1..MaxRace}
  /\ owner = [i \in DOMAIN store |-> "u1"]
  /\ tasks = SelectTodos(store, "u1", "u1")
  /\ inflight = <<>>
  /\ toast = "none"
  /\ returned = NoTask
  /\ view = InitialView
  /\ now = 0
  /\ form = InitialForm

\* Due dates are set from the date picker, and the collection is loaded
\* again when the session is refreshed, one request at a time.
NextDated ==
  \/ Updates(1, MaxRace, {[dueDate |-> Some(localMidnight(day))] : day \in Days})
  \/ Auth({"u1"}, 1)

SpecDated == InitDated /\ [][NextDated]_vars

\* reorderTasks takes any two numbers: besides the positions of the
\* collection, the one just past its end. A start index past the end makes
\* splice remove nothing and the collection grow by one element, so such
\* calls are made while the collection has fewer than MaxRace elements.
AnyIndices == 0..Len(tasks)

ReordersAny(cap) ==
  /\ UNCHANGED <<view, now, utcOffset, form>>
  /\ \/ /\ Len(inflight) < cap
        /\ \E startIndex \in AnyIndices, endIndex \in AnyIndices :
              /\ startIndex < Len(tasks) \/ Len(tasks) < MaxRace
              /\ ReorderTasks(startIndex, endIndex)
     \/ \E s \in DOMAIN inflight, ok \in BOOLEAN : ReorderWrite(s, ok)

\* The operations of the hook called with any arguments, signed in or not.
NextAnyIndex ==
  \/ Auth({"u1"}, 1)
  \/ Adds(1, MaxRace)
  \/ Updates(1, MaxRace, {[completed |-> TRUE]})
  \/ Deletes(1, MaxRace)
  \/ ReordersAny(1)

SpecAnyIndex == Init /\ [][NextAnyIndex]_vars

\* Partial<Task> values the signature of updateTask admits besides those of
\* the task form: every key of Task is optional in it, id included.
PartialTasks == Patches \cup {[id |-> 2], [order |-> 0]}

\* One session, adds and updates with any Partial<Task>, one after another.
NextPartial ==
  \/ Adds(1, MaxRace)
  \/ Updates(1, MaxRace, PartialTasks)

SpecPartial == InitReady /\ [][NextPartial]_vars

----------------------------------------------------------------------------
(* The view state and its setters *)

SetFilter(f) ==
  /\ view' = [view EXCEPT !.filter = f]
  /\ UNCHANGED <<user, tasks, store, owner, inflight, toast, returned, now, utcOffset,
               form>>

SetSort(k) ==
  /\ view' = [view EXCEPT !.sort = k]
  /\ UNCHANGED <<user, tasks, store, owner, inflight, toast, returned, now, utcOffset,
               form>>

SetSearchQuery(q) ==
  /\ view' = [view EXCEPT !.searchQuery = q]
  /\ UNCHANGED <<user, tasks, store, owner, inflight, toast, returned, now, utcOffset,
               form>>

SetSelectedCategory(c) ==
  /\ view' = [view EXCEPT !.selectedCategory = c]
  /\ UNCHANGED <<user, tasks, store, owner, inflight, toast, returned, now, utcOffset,
               form>>

SetSelectedTags(tags) ==
  /\ view' = [view EXCEPT !.selectedTags = tags]
  /\ UNCHANGED <<user, tasks, store, owner, inflight, toast, returned, now, utcOffset,
               form>>

\* The sequences over S of length n at most.
Lists(S, n) == UNION {[1..k -> S] : k \in 0..n}

\* The search texts typed, the category and the tag lists selected.
Queries == {<<>>, <<" ">>, <<"a">>, <<"B">>, <<"b", " ">>}
CategoryChoices == {None, Some("work")}
TagChoices == {<<>>, << <<"B">> >>}

\* A signed-in user whose collection holds up to MaxView tasks of the shapes,
\* in any arrangement, each with its row; the id of a task is its position.
InitView(shapes) ==
  /\ user = "u1"
  /\ tasks \in {[i \in DOMAIN ts |-> [ts[i] EXCEPT !.id = i]] : ts \in Lists(shapes, MaxView)}
  /\ store = [i \in DOMAIN tasks |->
                [user_id |-> "u1", title |-> tasks[i].title,
                 completed |-> tasks[i].completed, order |-> tasks[i].order]]
  /\ owner = [i \in DOMAIN tasks |-> "u1"]
  /\ inflight = <<>>
  /\ toast = "none"
  /\ returned = NoTask
  /\ view = InitialView
  /\ now = 0
  /\ utcOffset = 0
  /\ form = InitialForm

\* Tasks that differ in what the status, category and tag filters read.
FilterShapes ==
  {[BaseTask EXCEPT !.completed = c, !.categoryId = g, !.tags = tg] :
     c \in BOOLEAN, g \in CategoryChoices, tg \in TagChoices}

NextFilter ==
  \/ \E f \in FilterType : SetFilter(f)
  \/ \E k \in SortType : SetSort(k)
  \/ \E q \in {<<>>, <<"a">>} : SetSearchQuery(q)
  \/ \E c \in CategoryChoices : SetSelectedCategory(c)
  \/ \E tags \in TagChoices : SetSelectedTags(tags)

SpecFilter == InitView(FilterShapes) /\ [][NextFilter]_vars

\* Tasks that differ in what the search reads.
SearchShapes ==
  {[BaseTask EXCEPT !.title = ti, !.description = d, !.tags = tg] :
     ti \in {<<"a">>, <<"A", "b">>, <<"b", " ">>},
     d \in {None, Some(<<"B", "a">>)},
     tg \in TagChoices}

NextSearch ==
  \/ \E q \in Queries : SetSearchQuery(q)
  \/ \E tags \in TagChoices : SetSelectedTags(tags)

SpecSearch == InitView(SearchShapes) /\ [][NextSearch]_vars

\* Tasks that differ in their due date.
DueShapes ==
  {[BaseTask EXCEPT !.dueDate = d, !.completed = c] :
     d \in {None, Some(1), Some(2)}, c \in BOOLEAN}

NextDue ==
  \/ \E k \in SortType : SetSort(k)
  \/ \E f \in FilterType : SetFilter(f)

SpecDue == InitView(DueShapes) /\ [][NextDue]_vars

\* Tasks that differ in what the sort keys date, priority and name read.
SortShapes ==
  {[BaseTask EXCEPT !.createdAt = ca, !.priority = p, !.title = ti] :
     ca \in 1..2, p \in {"high", "medium", "low"},
     ti \in {<<"a">>, <<"A">>, <<"b">>}}

NextSort == \E k \in SortType : SetSort(k)

SpecSort == InitView(SortShapes) /\ [][NextSort]_vars

----------------------------------------------------------------------------
(* The clock *)

\* Half a day passes.
Tick ==
  /\ now < MaxNow
  /\ now' = now + 12
  /\ UNCHANGED <<user, tasks, store, owner, inflight, toast, returned, view, utcOffset,
               form>>

\* Local time behind UTC, equal to it, and ahead of it.
Offsets == {-5, 0, 3}

\* As InitView, at 06:00 UTC of a Monday in any of the time zones.
InitClock(shapes) ==
  /\ user = "u1"
  /\ tasks \in {[i \in DOMAIN ts |-> [ts[i] EXCEPT !.id = i]] : ts \in Lists(shapes, MaxView)}
  /\ store = [i \in DOMAIN tasks |->
                [user_id |-> "u1", title |-> tasks[i].title,
                 completed |-> tasks[i].completed, order |-> tasks[i].order]]
  /\ owner = [i \in DOMAIN tasks |-> "u1"]
  /\ inflight = <<>>
  /\ toast = "none"
  /\ returned = NoTask
  /\ view = InitialView
  /\ now = 30
  /\ utcOffset \in Offsets
  /\ form = InitialForm

\* Tasks that differ in what the statistics read: created or due on Sunday
\* evening, on Monday morning, or in the week after.
StatShapes ==
  {[BaseTask EXCEPT !.completed = c, !.dueDate = d, !.createdAt = ca] :
     c \in BOOLEAN, d \in {None, Some(20), Some(28)}, ca \in {20, 28, 200}}

NextStats == Tick

SpecStats == InitClock(StatShapes) /\ [][NextStats]_vars

\* n tasks like t.
Repeat(t, n) == [i \in 1..n |-> t]

\* Collections of completed tasks created on Monday morning, active tasks of
\* high priority and active tasks due on Sunday evening, at 06:00 UTC of the
\* Monday in any of the time zones.
InitSuggest ==
  /\ user = "u1"
  /\ \E a \in 0..MaxDone, b \in 0..MaxHigh, c \in 0..1 :
        LET ts == Repeat([BaseTask EXCEPT !.completed = TRUE, !.createdAt = 28], a)
                  \o Repeat([BaseTask EXCEPT !.priority = "high"], b)
                  \o Repeat([BaseTask EXCEPT !.dueDate = Some(20)], c)
        IN tasks = [i \in DOMAIN ts |-> [ts[i] EXCEPT !.id = i]]
  /\ store = [i \in DOMAIN tasks |->
                [user_id |-> "u1", title |-> tasks[i].title,
                 completed |-> tasks[i].completed, order |-> tasks[i].order]]
  /\ owner = [i \in DOMAIN tasks |-> "u1"]
  /\ inflight = <<>>
  /\ toast = "none"
  /\ returned = NoTask
  /\ view = InitialView
  /\ now = 30
  /\ utcOffset \in Offsets
  /\ form = InitialForm

NextSuggest == Tick

SpecSuggest == InitSuggest /\ [][NextSuggest]_vars

----------------------------------------------------------------------------
(* The task form *)

\* Array.prototype.includes over a tag list.
hasTag(tags, tag) == \E i \in DOMAIN tags : tags[i] = tag

\* resetForm: the fields of the form emptied.
resetForm(f) == [f EXCEPT !.title = <<>>, !.tagInput = <<>>, !.tags = <<>>]

\* The dialog opened for a new task: the effect on [editTask, open] resets
\* the fields.
OpenNew ==
  /\ ~form.open
  /\ form' = [resetForm(form) EXCEPT !.open = TRUE, !.editingTask = None]
  /\ UNCHANGED <<user, tasks, store, owner, inflight, toast, returned, view, now,
               utcOffset>>

\* handleEdit: the dialog opened on a task of the collection; the effect
\* loads its title and its tags.
handleEdit(i) ==
  /\ ~form.open
  /\ form' = [form EXCEPT !.open = TRUE, !.editingTask = Some(tasks[i].id),
                          !.title = tasks[i].title, !.tagInput = <<>>,
                          !.tags = tasks[i].tags]
  /\ UNCHANGED <<user, tasks, store, owner, inflight, toast, returned, view, now,
               utcOffset>>

\* Typing in the title field and in the tag field.
SetTitle(text) ==
  /\ form.open
  /\ form' = [form EXCEPT !.title = text]
  /\ UNCHANGED <<user, tasks, store, owner, inflight, toast, returned, view, now,
               utcOffset>>

SetTagInput(text) ==
  /\ form.open
  /\ form' = [form EXCEPT !.tagInput = text]
  /\ UNCHANGED <<user, tasks, store, owner, inflight, toast, returned, view, now,
               utcOffset>>

\* An addTag that does not look for the tag in the list.
addTagAny(f) ==
  IF trim(f.tagInput) # <<>>
    THEN [f EXCEPT !.tags = Append(f.tags, trim(f.tagInput)), !.tagInput = <<>>]
    ELSE f

\* addTag: the trimmed input is appended when it is not empty and not in the
\* list already, and the input is cleared; otherwise nothing changes.
addTag(f) ==
  IF trim(f.tagInput) # <<>> /\ ~hasTag(f.tags, trim(f.tagInput))
    THEN [f EXCEPT !.tags = Append(f.tags, trim(f.tagInput)), !.tagInput = <<>>]
    ELSE f

\* The add button, or Enter in the tag field.
AddTag ==
  /\ form.open
  /\ form' = addTag(form)
  /\ UNCHANGED <<user, tasks, store, owner, inflight, toast, returned, view, now,
               utcOffset>>

\* removeTag: tags.filter(t => t !== tag).
removeTag(tags, tag) == SelectSeq(tags, LAMBDA t : t # tag)

RemoveTag(i) ==
  /\ form.open
  /\ i \in DOMAIN form.tags
  /\ form' = [form EXCEPT !.tags = removeTag(form.tags, form.tags[i])]
  /\ UNCHANGED <<user, tasks, store, owner, inflight, toast, returned, view, now,
               utcOffset>>

\* What handleSubmit passes to onSubmit, of the fields modelled.
SubmitData(f) == [title |-> trim(f.title), tags |-> f.tags]

\* handleSubmit: nothing when the trimmed title is empty; else onSubmit with
\* the data (handleFormSubmit: updateTask of the task being edited, or
\* addTask), then resetForm and onClose.
handleSubmit ==
  /\ form.open
  /\ UNCHANGED <<view, now, utcOffset>>
  /\ IF trim(form.title) = <<>>
       THEN UNCHANGED <<user, tasks, store, owner, inflight, toast, returned, form>>
       ELSE /\ Len(inflight) < MaxSubmit
            /\ form' = [resetForm(form) EXCEPT !.open = FALSE, !.editingTask = None,
                                               !.submitted = Some(SubmitData(form))]
            /\ IF form.editingTask # None
                 THEN UpdateTask(form.editingTask[1], SubmitData(form))
                 ELSE AddTask(SubmitData(form).title)

\* handleFormClose: the dialog dismissed.
handleFormClose ==
  /\ form.open
  /\ form' = [form EXCEPT !.open = FALSE, !.editingTask = None]
  /\ UNCHANGED <<user, tasks, store, owner, inflight, toast, returned, view, now,
               utcOffset>>

\* The texts typed in the title field and in the tag field.
TitleInputs == {<<>>, <<" ">>, <<" ", "a">>}
TagInputs == {<<>>, <<" ">>, <<"a">>, <<" ", "a">>, <<"B">>}

\* Tasks whose tag lists are ones the form submits.
FormShapes ==
  {[BaseTask EXCEPT !.tags = tg] :
     tg \in {<<>>, << <<"B">>, <<"a">> >>}}

NextForm ==
  \/ OpenNew
  \/ \E i \in DOMAIN tasks : handleEdit(i)
  \/ \E text \in TitleInputs : SetTitle(text)
  \/ \E text \in TagInputs : SetTagInput(text)
  \/ AddTag
  \/ \E i \in DOMAIN form.tags : RemoveTag(i)
  \/ handleSubmit
  \/ handleFormClose

SpecForm == InitView(FormShapes) /\ [][NextForm]_vars

----------------------------------------------------------------------------
(* Dragging a presented task onto another *)

\* Array.prototype.findIndex(t => t.id === id) for an id that occurs in ts.
findIndex(ts, id) ==
  (CHOOSE i \in DOMAIN ts : ts[i].id = id /\ \A j \in 1..(i - 1) : ts[j].id # id) - 1

\* handleDragEnd: active and over are tasks of the list presented; their
\* positions in that list are passed to reorderTasks.
handleDragEnd(active, over) ==
  /\ active # over
  /\ Len(inflight) < MaxSubmit
  /\ UNCHANGED <<view, now, utcOffset, form>>
  /\ LET presented == PresentedTasks(tasks, view)
     IN /\ active \in TaskIds(presented)
        /\ over \in TaskIds(presented)
        /\ ReorderTasks(findIndex(presented, active), findIndex(presented, over))

\* Tasks that differ in what the status filter and the sort by date read.
DragShapes ==
  {[BaseTask EXCEPT !.completed = c, !.createdAt = ca] : c \in BOOLEAN, ca \in 1..2}

NextDrag ==
  \/ \E f \in FilterType : SetFilter(f)
  \/ \E k \in {"date", "name"} : SetSort(k)
  \/ \E active, over \in TaskIds(tasks) : handleDragEnd(active, over)
  \/ /\ UNCHANGED <<view, now, utcOffset, form>>
     /\ \E s \in DOMAIN inflight : ReorderWrite(s, TRUE)

SpecDrag == InitView(DragShapes) /\ [][NextDrag]_vars

\* Overlapping reorders of a loaded collection, every write succeeding.
NextOverlap ==
  /\ UNCHANGED <<view, now, utcOffset, form>>
  /\ \/ /\ Len(inflight) < MaxInflight
        /\ \E startIndex \in Indices, endIndex \in Indices :
              startIndex # endIndex /\ ReorderTasks(startIndex, endIndex)
     \/ \E s \in DOMAIN inflight : ReorderWrite(s, TRUE)

SpecOverlap == InitView({BaseTask}) /\ [][NextOverlap]_vars

----------------------------------------------------------------------------
(* Steps of a behaviour, recognised from the requests awaited *)

\* A call: the awaited requests stay as they are, at most one is added.
IsCall ==
  /\ Len(inflight') >= Len(inflight)
  /\ SubSeq(inflight', 1, Len(inflight)) = inflight

\* The continuation of request s ran in this step.
Resumed(s, kind) ==
  /\ s \in DOMAIN inflight
  /\ inflight[s].kind = kind
  /\ inflight[s].phase = "resp"
  /\ inflight' = Remove(inflight, s)

\* reorderTasks was called in this step.
ReorderCalled ==
  /\ Len(inflight') = Len(inflight) + 1
  /\ SubSeq(inflight', 1, Len(inflight)) = inflight
  /\ inflight'[Len(inflight')].kind = "reorder"

\* The order values of ts are 0..N-1, none repeated, none skipped.
DensePermutation(ts) ==
  \A k \in 0..(Len(ts) - 1) : Cardinality({i \in DOMAIN ts : ts[i].order = k}) = 1

----------------------------------------------------------------------------
(* Claims *)

\* C1: right after each successful add and each reorder, the order values of
\* the canonical collection are a permutation of 0..N-1.
C1_OrderPermutationAfterAddOrReorder ==
  [][((\E s \in DOMAIN inflight : Resumed(s, "add") /\ inflight[s].ok) \/ ReorderCalled)
       => DensePermutation(tasks')]_vars

\* C2: from an empty collection, once every add has resolved the collection
\* lists the added tasks newest first and the task at position i (counted
\* from 1) carries order N - i, so the k-th added task carries order k - 1.
C2_AddsNewestFirstDense ==
  inflight = <<>> =>
    /\ \A i \in DOMAIN tasks : tasks[i].order = Len(tasks) - i
    /\ \A i, j \in DOMAIN tasks : i < j => created_at(tasks[i].id) > created_at(tasks[j].id)

\* A task without its order value.
Strip(t) == [id |-> t.id, title |-> t.title, completed |-> t.completed]

StripAll(ts) == [i \in DOMAIN ts |-> Strip(ts[i])]

\* after is before with the element at position from (counted from 0) taken
\* out and put back at position to, and every order equal to the position.
MovedTo(before, after, from, to) ==
  /\ Len(after) = Len(before)
  /\ Strip(after[to + 1]) = Strip(before[from + 1])
  /\ StripAll(Remove(after, to + 1)) = StripAll(Remove(before, from + 1))
  /\ TaskIds(after) = TaskIds(before)
  /\ \A i \in DOMAIN after : after[i].order = i - 1

\* C3: reorder(from, to) with valid indices moves the element at from to
\* position to, keeps the arrangement of the others and the set of ids, and
\* leaves every order equal to its position.
C3_ReorderMovesElement ==
  [][ReorderCalled =>
       LET op == inflight'[Len(inflight')]
       IN MovedTo(tasks, tasks', op.startIndex, op.endIndex)]_vars

\* A reorder from the first to the third position of three tasks was just called.
C3_Witness ==
  \E s \in DOMAIN inflight :
    /\ inflight[s].kind = "reorder"
    /\ inflight[s].startIndex = 0 /\ inflight[s].endIndex = 2
    /\ Len(inflight[s].writes) = 3 /\ Len(tasks) = 3

\* C4: a failed insert leaves the collection as it was and add returns null;
\* the collection changes only by prepending the row a confirmed insert
\* returned.
C4_FailedAddLeavesCollection ==
  [][/\ \A s \in DOMAIN inflight :
          (Resumed(s, "add") /\ ~inflight[s].ok)
            => (tasks' = tasks /\ returned' = NullTask)
     /\ tasks' # tasks =>
          \E s \in DOMAIN inflight :
            /\ Resumed(s, "add") /\ inflight[s].ok
            /\ inflight[s].data[1].id \in DOMAIN store
            /\ tasks' = inflight[s].data \o tasks]_vars

\* An add has just failed while the collection held a task and another add
\* was awaited.
C4_Witness ==
  /\ toast = "add" /\ returned = NullTask
  /\ Len(tasks) >= 1 /\ inflight # <<>>

\* An updateTask call added its request in this step.
UpdateCalled ==
  /\ Len(inflight') = Len(inflight) + 1
  /\ SubSeq(inflight', 1, Len(inflight)) = inflight
  /\ inflight'[Len(inflight')].kind = "update"

\* C5: an update whose write fails applies none of its fields: neither the
\* call nor the failed continuation changes any task of the collection.
C5_FailedUpdateAppliesNothing ==
  [][/\ UpdateCalled => tasks' = tasks
     /\ \A s \in DOMAIN inflight :
          (Resumed(s, "update") /\ ~inflight[s].ok) => tasks' = tasks]_vars

\* An update has just failed; its target is in the collection, since every
\* id is, and every task still has the fields it was created with.
C5_Witness ==
  /\ toast = "update"
  /\ TaskIds(tasks) = 1..MaxId
  /\ \A i \in DOMAIN tasks : tasks[i].title = "a" /\ ~tasks[i].completed

\* C6: after a failed delete the task is still in the collection and in the
\* presented sequence under every filter it was presented under, and the
\* call surfaced one failure notification (none when it was made, one when
\* the failure arrived).
C6_FailedDeleteKeepsTask ==
  [][/\ (IsCall /\ Len(inflight') > Len(inflight)
           /\ inflight'[Len(inflight')].kind = "delete") => toast' = "none"
     /\ \A s \in DOMAIN inflight :
          (Resumed(s, "delete") /\ ~inflight[s].ok) =>
            LET id == inflight[s].id
            IN /\ id \in TaskIds(tasks) => id \in TaskIds(tasks')
               /\ \A f \in FilterType :
                    id \in TaskIds(filteredAndSortedTasks(tasks, f))
                      => id \in TaskIds(filteredAndSortedTasks(tasks', f))
               /\ toast' = "delete"]_vars

\* A delete has just failed; its target is in the collection, since every id
\* is, and the collection holds a completed and an active task.
C6_Witness ==
  /\ toast = "delete"
  /\ TaskIds(tasks) = 1..MaxId
  /\ \E i, j \in DOMAIN tasks : tasks[i].completed /\ ~tasks[j].completed

\* C7: the collection only holds tasks of the current identity and is empty
\* while there is none, whatever responses of earlier identities arrive.
C7_CollectionBelongsToIdentity ==
  /\ user = NoUser => tasks = <<>>
  /\ \A i \in DOMAIN tasks : owner[tasks[i].id] = user

\* C8: while no identity is present, a call of add, update, delete,
\* toggleComplete or reorder sends no request and leaves an empty collection
\* empty.
C8_NoIdentityNoMutation ==
  [][(user = NoUser /\ user' = NoUser /\ IsCall) =>
       /\ inflight' = inflight
       /\ tasks = <<>> => tasks' = <<>>]_vars

\* C9: when the continuation of a failed load has run, the collection is
\* empty and the load failure has been notified.
C9_FailedLoadEmptiesCollection ==
  [][\A s \in DOMAIN inflight :
       (Resumed(s, "load") /\ ~inflight[s].ok) => (tasks' = <<>> /\ toast' = "load")]_vars

\* C10: every request on its way to the store carries the id of the identity
\* that was current when it was sent, as the user_id predicate or field.
C10_RequestsCarryIdentity ==
  \A s \in DOMAIN inflight :
    inflight[s].phase = "sent" =>
      (inflight[s].uid # NoUser /\ inflight[s].uid = inflight[s].auth)

\* The store rejected the write of reorder request s that was awaited, where
\* accepting it would have changed a row.
ReorderWriteFailed(s) == ReorderWrite(s, FALSE) /\ ~ReorderWrite(s, TRUE)

\* C11: every add, update, delete and reorder whose write fails surfaces the
\* failure notification of that operation.
C11_FailedWriteNotified ==
  [][\A s \in DOMAIN inflight :
       /\ (Resumed(s, "add") /\ ~inflight[s].ok) => toast' = "add"
       /\ (Resumed(s, "update") /\ ~inflight[s].ok) => toast' = "update"
       /\ (Resumed(s, "delete") /\ ~inflight[s].ok) => toast' = "delete"
       /\ ReorderWriteFailed(s) => toast' = "reorder"]_vars

\* The store accepted the write of request s of the kind in this step.
Stored(s, kind) ==
  /\ inflight[s].kind = kind /\ inflight[s].phase = "sent"
  /\ inflight' = [inflight EXCEPT ![s] = [@ EXCEPT !.phase = "resp", !.ok = TRUE]]

\* C12: a successful update(id, fields) keeps the id and the createdAt of the
\* task (the creation time is the one of the row with its id), keeps every
\* field that is not a key of fields, and keeps every other task, in the
\* collection and in the store.
C12_UpdateFrame ==
  [][\A s \in DOMAIN inflight :
       /\ (Resumed(s, "update") /\ inflight[s].ok) =>
            /\ Len(tasks') = Len(tasks)
            /\ \A i \in DOMAIN tasks :
                 IF tasks[i].id # inflight[s].id
                   THEN tasks'[i] = tasks[i]
                   ELSE /\ tasks'[i].id = tasks[i].id
                        /\ created_at(tasks'[i].id) = created_at(tasks[i].id)
                        /\ \A f \in DOMAIN tasks[i] \ DOMAIN inflight[s].patch :
                             tasks'[i][f] = tasks[i][f]
       /\ Stored(s, "update") =>
            /\ DOMAIN store' = DOMAIN store
            /\ \A r \in DOMAIN store :
                 IF r # inflight[s].id
                   THEN store'[r] = store[r]
                   ELSE \A f \in DOMAIN store[r] \ DOMAIN inflight[s].patch :
                          store'[r][f] = store[r][f]]_vars

\* C13: a successful delete(id) takes exactly the task with the id out of the
\* collection and exactly its row out of the store; the remaining tasks and
\* rows keep every field, the order value included, and their arrangement.
C13_DeleteFrame ==
  [][\A s \in DOMAIN inflight :
       /\ (Resumed(s, "delete") /\ inflight[s].ok) =>
            \/ /\ inflight[s].id \notin TaskIds(tasks)
               /\ tasks' = tasks
            \/ \E k \in DOMAIN tasks :
                 /\ tasks[k].id = inflight[s].id
                 /\ tasks' = Remove(tasks, k)
       /\ Stored(s, "delete") =>
            /\ DOMAIN store' = DOMAIN store \ {inflight[s].id}
            /\ \A r \in DOMAIN store' : store'[r] = store[r]]_vars

\* A delete has just succeeded and left a gap in the order values: the
\* newest task still carries the highest order, one more than there are
\* tasks left, and each task left has its row.
C13_Witness ==
  /\ Len(owner) = MaxId /\ Len(tasks) = MaxId - 1
  /\ toast = "none" /\ inflight = <<>>
  /\ tasks[1].order = MaxId - 1
  /\ TaskIds(tasks) = DOMAIN store

\* The first task of the collection with the id.
Find(ts, id) ==
  ts[CHOOSE i \in DOMAIN ts : ts[i].id = id /\ \A j \in 1..(i - 1) : ts[j].id # id]

\* C14: toggleComplete(id) on a present task asks for the complement of the
\* completed value in memory; while the request is awaited the collection
\* stays as it is, and when it has been persisted the task has the value
\* asked for and nothing else has changed. So a toggle after
\* update(id, {completed: true}) yields false, and two toggles made one after
\* the other give back the first value.
C14_ToggleComplement ==
  [][/\ \A id \in TaskIds(tasks) :
          (user # NoUser /\ ToggleComplete(id)) =>
             /\ tasks' = tasks
             /\ inflight'[Len(inflight')].id = id
             /\ inflight'[Len(inflight')].patch =
                  [completed |-> ~Find(tasks, id).completed]
     /\ \A s \in DOMAIN inflight :
          /\ Stored(s, "update") => tasks' = tasks
          /\ (Resumed(s, "update") /\ inflight[s].ok
                /\ DOMAIN inflight[s].patch = {"completed"}) =>
               tasks' = [i \in DOMAIN tasks |->
                           IF tasks[i].id = inflight[s].id
                             THEN [tasks[i] EXCEPT !.completed = inflight[s].patch.completed]
                             ELSE tasks[i]]]_vars

\* A toggle of a completed task has been persisted and is about to be
\* merged: only toggleComplete asks for completed: false alone, the task is
\* completed in memory (by an update or a toggle before) and its row is not.
C14_Witness ==
  \E s \in DOMAIN inflight :
    /\ inflight[s].kind = "update" /\ inflight[s].phase = "resp" /\ inflight[s].ok
    /\ inflight[s].patch = [completed |-> FALSE]
    /\ inflight[s].id \in TaskIds(tasks)
    /\ Find(tasks, inflight[s].id).completed
    /\ ~store[inflight[s].id].completed

\* The store answered the write of reorder request s that was awaited.
ReorderWritten(s) == \E ok \in BOOLEAN : ReorderWrite(s, ok)

\* C15: the reorderTasks call renumbers the collection and touches no row;
\* its writes are the new order of every task of the collection, in the
\* order of the collection; each write changes at most the row it names, and
\* whatever the store answers the collection keeps the new arrangement.
C15_ReorderMemoryFirst ==
  [][/\ ReorderCalled =>
          /\ \A i \in DOMAIN tasks' : tasks'[i].order = i - 1
          /\ store' = store
          /\ inflight'[Len(inflight')].writes =
               [i \in DOMAIN tasks' |-> [id |-> tasks'[i].id, order |-> i - 1]]
     /\ \A s \in DOMAIN inflight :
          ReorderWritten(s) =>
            /\ tasks' = tasks
            /\ \A r \in DOMAIN store :
                 r # Head(inflight[s].writes).id => store'[r] = store[r]
            /\ \/ /\ Len(inflight[s].writes) = 1
                  /\ inflight' = Remove(inflight, s)
               \/ /\ Len(inflight[s].writes) > 1
                  /\ inflight'[s].writes = Tail(inflight[s].writes)]_vars

\* A reorder is over and a write of it was rejected: the collection of two
\* or more tasks is numbered by position and a row still has another order.
C15_Witness ==
  /\ inflight = <<>> /\ Len(tasks) >= 2
  /\ \A i \in DOMAIN tasks : tasks[i].order = i - 1
  /\ \E i \in DOMAIN tasks : store[tasks[i].id].order # tasks[i].order

\* C16: update, delete and toggleComplete with an id that is not in the
\* collection (asked by the identity that is still current) change neither
\* the collection nor a stored row, at the call, at the store and afterwards.
C16_AbsentIdNoOp ==
  [][/\ \A id \in (1..MaxRace) \ TaskIds(tasks) :
          ToggleComplete(id) => (tasks' = tasks /\ inflight' = inflight)
     /\ \A s \in DOMAIN inflight :
          (/\ inflight[s].kind \in {"update", "delete"}
           /\ inflight[s].uid = user
           /\ inflight[s].id \notin TaskIds(tasks)) =>
             /\ Stored(s, inflight[s].kind) => store' = store
             /\ Resumed(s, inflight[s].kind) => tasks' = tasks]_vars

\* The presented sequence under the status filter f, the other view
\* parameters as they are.
PresentedUnder(f) == PresentedTasks(tasks, [view EXCEPT !.filter = f])

\* C17: whatever the other view parameters, the sequences presented under
\* 'active' and under 'completed' share no task, together hold exactly the
\* tasks presented under 'all', and their lengths add up to its length.
C17_ActiveCompletedPartition ==
  LET active == PresentedUnder("active")
      completed == PresentedUnder("completed")
      all == PresentedUnder("all")
  IN /\ TaskIds(active) \cap TaskIds(completed) = {}
     /\ {active[i] : i \in DOMAIN active} \cup {completed[i] : i \in DOMAIN completed}
          = {all[i] : i \in DOMAIN all}
     /\ Len(active) + Len(completed) = Len(all)

\* A category is selected that not every task has, and both an active and a
\* completed task of it are presented.
C17_Witness ==
  /\ view.selectedCategory # None
  /\ Len(PresentedUnder("all")) < Len(tasks)
  /\ Len(PresentedUnder("active")) >= 1
  /\ Len(PresentedUnder("completed")) >= 1

\* text occurs in str, case ignored.
ContainsText(str, text) == includes(toLowerCase(str), toLowerCase(text))

\* The title, the description or a tag of t contains the text.
Matches(t, text) ==
  \/ ContainsText(t.title, text)
  \/ t.description # None /\ ContainsText(t.description[1], text)
  \/ \E j \in DOMAIN t.tags : ContainsText(t.tags[j], text)

\* The tasks that pass the status, category and tag filters.
PassFilters ==
  SelectSeq(tasks, LAMBDA t : /\ StatusKeep(view.filter, t)
                              /\ CategoryKeep(view, t)
                              /\ TagsKeep(view, t))

\* C18: with an empty search text every task that passes the status,
\* category and tag filters is presented; with a non-empty one exactly those
\* of them whose title, description or some tag contains the text, case
\* ignored (so none when nothing matches).
C18_SearchMatchesSubstring ==
  LET presented == PresentedTasks(tasks, view)
  IN IF view.searchQuery = <<>>
       THEN TaskIds(presented) = TaskIds(PassFilters)
       ELSE TaskIds(presented) =
              TaskIds(SelectSeq(PassFilters, LAMBDA t : Matches(t, view.searchQuery)))

\* C19: under the sort key dueDate every presented task with a due date
\* comes before every one without, those with a due date are in ascending
\* order of it, and those without are arranged as in the collection.
C19_DueDateSort ==
  view.sort = "dueDate" =>
    LET presented == PresentedTasks(tasks, view)
    IN /\ \A i, j \in DOMAIN presented :
            i < j =>
              /\ presented[i].dueDate = None => presented[j].dueDate = None
              /\ (presented[i].dueDate # None /\ presented[j].dueDate # None)
                    => presented[i].dueDate[1] <= presented[j].dueDate[1]
       /\ SelectSeq(presented, LAMBDA t : t.dueDate = None)
            = SelectSeq(PassFilters, LAMBDA t : t.dueDate = None)
       /\ TaskIds(presented) = TaskIds(PassFilters)

\* The sort key is dueDate and the collection starts with a task without a
\* due date, followed by one due later and one due earlier, all presented.
C19_Witness ==
  /\ view.sort = "dueDate" /\ view.filter = "all"
  /\ Len(tasks) >= 3
  /\ tasks[1].dueDate = None
  /\ tasks[2].dueDate = Some(2)
  /\ tasks[3].dueDate = Some(1)

\* a does not come after b under the sort key: newest createdAt first for
\* date, high before medium before low for priority, ascending title for
\* name.
InKeyOrder(k, a, b) ==
  CASE k = "date" -> a.createdAt >= b.createdAt
    [] k = "priority" -> priorityOrder(a.priority) <= priorityOrder(b.priority)
    [] k = "name" -> localeCompare(a.title, b.title) <= 0
    [] OTHER -> TRUE

\* C20: under the sort keys date, priority and name the presented sequence
\* holds exactly the filtered tasks, in the order of the key, tasks with
\* equal keys arranged as in the collection (where the id of a task is its
\* position), and sorting it again gives the same sequence.
C20_SortOrderedStableIdempotent ==
  view.sort \in {"date", "priority", "name"} =>
    LET presented == PresentedTasks(tasks, view)
    IN /\ Len(presented) = Len(PassFilters)
       /\ {presented[i] : i \in DOMAIN presented}
            = {PassFilters[i] : i \in DOMAIN PassFilters}
       /\ \A i, j \in DOMAIN presented :
            i < j =>
              /\ InKeyOrder(view.sort, presented[i], presented[j])
              /\ InKeyOrder(view.sort, presented[j], presented[i])
                   => presented[i].id < presented[j].id
       /\ Sorted(view.sort, presented) = presented

\* The sort key is name; the collection holds the titles b, A, a in this
\* order, and two tasks of equal priority and creation time.
C20_Witness ==
  /\ view.sort = "name"
  /\ Len(tasks) >= 3
  /\ tasks[1].title = <<"b">> /\ tasks[2].title = <<"A">> /\ tasks[3].title = <<"a">>
  /\ tasks[1].priority = tasks[2].priority
  /\ tasks[1].createdAt = tasks[2].createdAt

\* The number of tasks of the collection for which P holds.
Count(P(_)) == Cardinality({i \in DOMAIN tasks : P(tasks[i])})

\* C21: total is the size of the collection and the sum of completed and
\* active; overdue counts the active tasks whose due date is on a local
\* calendar day before today; completedToday and completedThisWeek count the
\* completed tasks created today and in the current week.
C21_Statistics ==
  /\ stats.total = Len(tasks)
  /\ stats.total = stats.completed + stats.active
  /\ stats.completed = Count(LAMBDA t : t.completed)
  /\ stats.overdue =
       Count(LAMBDA t : /\ ~t.completed
                        /\ t.dueDate # None
                        /\ LocalDay(t.dueDate[1]) < LocalDay(now))
  /\ stats.completedToday =
       Count(LAMBDA t : t.completed /\ LocalDay(t.createdAt) = LocalDay(now))
  /\ stats.completedThisWeek =
       Count(LAMBDA t : t.completed /\ LocalDay(t.createdAt) \div 7 = LocalDay(now) \div 7)

\* Time has passed; an active task was due earlier today and another one
\* yesterday, and a completed task was created today: one task counts as
\* overdue.
C21_Witness ==
  /\ now > 30
  /\ \E i \in DOMAIN tasks :
        /\ ~tasks[i].completed /\ tasks[i].dueDate # None
        /\ tasks[i].dueDate[1] < now
        /\ LocalDay(tasks[i].dueDate[1]) = LocalDay(now)
  /\ stats.overdue = 1
  /\ stats.completedToday >= 1

\* C22: the suggestions hold the overdue warning exactly when overdue > 0,
\* the congratulation exactly when completedToday >= 5 and the
\* prioritization warning exactly when more than 3 active tasks have high
\* priority, in this order and nothing else.
C22_Suggestions ==
  LET present == {smartSuggestions[i] : i \in DOMAIN smartSuggestions}
  IN /\ "overdue" \in present <=> stats.overdue > 0
     /\ "congratulation" \in present <=> stats.completedToday >= 5
     /\ "prioritization" \in present <=>
          Count(LAMBDA t : ~t.completed /\ t.priority = "high") > 3
     /\ smartSuggestions =
          SelectSeq(<<"overdue", "congratulation", "prioritization">>,
                    LAMBDA x : x \in present)

\* Time has passed and all three suggestions are made.
C22_Witness ==
  /\ now > 30
  /\ smartSuggestions = <<"overdue", "congratulation", "prioritization">>

\* C23: the tag list the form submits holds no duplicate and no empty or
\* whitespace-only tag, whatever was typed, added and removed since the form
\* opened; a submit whose trimmed title is empty calls neither addTask nor
\* updateTask.
C23_FormTags ==
  [][/\ \A i, j \in DOMAIN form'.tags : form'.tags[i] = form'.tags[j] => i = j
     /\ \A i \in DOMAIN form'.tags : trim(form'.tags[i]) # <<>>
     /\ form'.submitted # form.submitted =>
          LET data == form'.submitted[1]
          IN /\ data.tags = form.tags
             /\ data.title # <<>>
             /\ \A i, j \in DOMAIN data.tags : data.tags[i] = data.tags[j] => i = j
             /\ \A i \in DOMAIN data.tags : trim(data.tags[i]) # <<>>
     /\ (form.open /\ trim(form.title) = <<>>) =>
          (form'.submitted = form.submitted /\ inflight' = inflight)]_vars

\* A task was edited and submitted with two tags; updateTask awaits the store.
C23_Witness ==
  /\ form.submitted # None
  /\ Len(form.submitted[1].tags) = 2
  /\ Len(inflight) > 0
  /\ inflight[Len(inflight)].kind = "update"
  /\ inflight[Len(inflight)].patch.tags = form.submitted[1].tags

\* C24: when presented task X is dragged onto presented task Y, under any
\* filter and sort key, the collection after the call is the one before it
\* with X removed and reinserted at the position Y held, renumbered.
C24_DragMovesDragged ==
  [][\A X, Y \in TaskIds(tasks) :
       handleDragEnd(X, Y) =>
         /\ tasks' = ReorderResult(tasks, findIndex(tasks, X), findIndex(tasks, Y))
         /\ tasks'[findIndex(tasks, Y) + 1].id = X]_vars

\* The request s is a toggle of task id that the store has persisted and
\* whose continuation has not run yet.
TogglePersisted(s, id) ==
  /\ inflight[s].kind = "update" /\ inflight[s].id = id
  /\ DOMAIN inflight[s].patch = {"completed"}
  /\ inflight[s].phase = "resp" /\ inflight[s].ok

\* C25: when two toggles of the same present task overlap, the first made
\* on the value memory still holds, and the store has persisted both, the
\* stored completed is back at that value; the continuations then leave it in
\* memory too, each merging what its call asked for.
C25_TwoTogglesRestore ==
  \A id \in TaskIds(tasks) : \A s1, s2 \in DOMAIN inflight :
    (/\ s1 < s2
     /\ TogglePersisted(s1, id) /\ TogglePersisted(s2, id)
     /\ inflight[s1].patch.completed = ~Find(tasks, id).completed)
    => /\ store[id].completed = Find(tasks, id).completed
       /\ inflight[s2].patch.completed = Find(tasks, id).completed

\* C26: after a successful update(id, fields) that reached the row, the
\* title, description, completed and order of the task in memory are those
\* the row maps to, also when fields carries description: undefined.
C26_MemoryEqualsStore ==
  [][\A s \in DOMAIN inflight :
       (/\ Resumed(s, "update") /\ inflight[s].ok
        /\ inflight[s].id \in TaskIds(tasks) /\ inflight[s].id \in DOMAIN store)
       => LET task == Find(tasks', inflight[s].id)
              row == store'[inflight[s].id]
          IN /\ task.title = row.title
             /\ task.description = MapDescription(row.description)
             /\ task.completed = row.completed
             /\ task.order = row.order]_vars

\* C27: when every load and add has resolved, none having failed, the ids
\* of the tasks in memory are the ids of the rows the store holds for the
\* current identity: no added task was dropped by a load that was awaited.
C27_AddedTaskSurvivesLoad ==
  (user # NoUser /\ inflight = <<>>) =>
    TaskIds(tasks) = {i \in DOMAIN store : store[i].user_id = user}

\* C28: when the writes of two overlapping reorders have all been persisted,
\* the order of each stored row is the order of its task in memory.
C28_OverlappingReordersAgree ==
  (inflight = <<>> /\ \A i \in DOMAIN tasks : tasks[i].order = i - 1) =>
    \A i \in DOMAIN tasks : store[tasks[i].id].order = tasks[i].order

\* C29: a load for the identity of a collection that holds the rows of that
\* identity in an arrangement a reorder has persisted (each task and its row
\* numbered with the position) leaves the collection as it is.
C29_LoadKeepsArrangement ==
  [][\A s \in DOMAIN inflight :
       (/\ Resumed(s, "load") /\ inflight[s].ok
        /\ Len(inflight) = 1 /\ inflight[s].uid = user
        /\ TaskIds(tasks) = {i \in DOMAIN store : store[i].user_id = user}
        /\ \A i \in DOMAIN tasks :
             tasks[i].order = i - 1 /\ store[tasks[i].id].order = i - 1)
       => tasks' = tasks]_vars

\* C30: a due date given to update as the local midnight of a calendar day
\* is stored as that day, and a load yields a due date on the calendar day
\* stored, in every time zone.
C30_DueDateRoundTrip ==
  [][/\ \A s \in DOMAIN inflight :
          (/\ Stored(s, "update")
           /\ "dueDate" \in DOMAIN inflight[s].patch
           /\ inflight[s].id \in DOMAIN store)
          => store'[inflight[s].id].due_date
               = Some(LocalDay(inflight[s].patch.dueDate[1]))
     /\ \A s \in DOMAIN inflight :
          (Resumed(s, "load") /\ inflight[s].ok)
          => \A i \in DOMAIN tasks' :
               tasks'[i].dueDate # None =>
                 LocalDay(tasks'[i].dueDate[1]) = store[tasks'[i].id].due_date[1]]_vars

====
